---- MODULE Spec2Model ----
(***************************************************************************)
(* iplant-backend: the document store (users, posts, comments), the post   *)
(* handlers that write it, and the ranking / statistics handlers of        *)
(* controllers/userController.js that read it.                             *)
(*                                                                         *)
(* Time is kept as the age class of a document relative to "now":          *)
(*   0 = created within the last 7 days, 1 = within the last month but not *)
(*   the last 7 days, 2 = older. Tick lets more than a month pass at once. *)
(* The order in which the store returns what a query leaves unordered is   *)
(* store state: find({ _id: { $in } }) answers in _id order (users); a     *)
(* $group stage emits its groups, and a store-side sort leaves equal keys, *)
(* in storeOrder, an order that no document holds: it is arbitrary, and a  *)
(* restore, resync or failover (Reorder) changes it under unchanged        *)
(* documents.                                                              *)
(* Under Spec and SpecApi requests are served one at a time: a handler     *)
(* runs when no response is pending (resp = NoResp) and EndRequest closes  *)
(* the request. SpecLike splits toggleLike at its awaits and lets          *)
(* requests overlap.                                                       *)
(***************************************************************************)
EXTENDS Integers, Sequences, FiniteSets, TLC

\* ---- bounds ----
NumUsers == 2
MaxPosts == 2
MaxComments == 1
MaxLikes == 1
MaxLimit == 1
ApiMaxPosts == 1
MaxSaves == 1
MaxThreadComments == 3
MaxOverlap == 2
MaxVersion == 3

\* ---- program constants ----
DefaultLimit == 10
CO2PerPlant == 20

UserIds == 1..NumUsers
PostIds == 1..MaxPosts
CommentIds == 1..MaxComments

\* req.body.plantType: "" stands for an absent (or empty, equally falsy) field
PlantTypeInputs == {"", "Unknown", "Rose"}
\* req.body.plantType of an update
UpdateTypeInputs == {"", "Rose"}
\* what can go wrong in createPost before the post is saved
CreateInputs == {"ok", "badLocation", "noImage", "uploadFails"}
\* req.query.category / req.query.timeRange: "" is an absent parameter, "other"
\* a value the handler does not know. An explicit "plants" / "all" is served as
\* the absent parameter is, and is not listed a second time.
CategoryInputs == {"", "co2", "engagement", "other"}
TimeRangeInputs == {"", "week", "month", "other"}
\* req.query.limit: absent, a non-numeric string, or a decimal integer
LimitInputs ==
  {[kind |-> "absent", n |-> 0], [kind |-> "text", n |-> 0]}
    \cup {[kind |-> "int", n |-> i] : i \in (0 - MaxLimit)..MaxLimit}

VARIABLES
  users,           \* User collection: ids in natural (insertion) order
  numberOfPlants,  \* User.numberOfPlants
  posts,           \* Post collection: records in insertion order
  comments,        \* Comment collection: records in insertion order
  nextPostId,      \* next fresh Post _id
  nextCommentId,   \* next fresh Comment _id
  storeOrder,      \* the store's incidental order of user ids
  savedPosts,      \* User.savedPosts: per user, post ids in push order
  bio,             \* User.bio
  resp,            \* the response to the request in progress
  req,             \* the request in progress as the router received it,
                   \* with the documents as they were when it arrived
  prevAnswer,      \* SpecRepeat: the last leaderboard answered since the
                   \* documents last changed
  postVersion,     \* Post.__v, tracked where saves can overlap
  inflight         \* toggleLike requests between their read and their save

vars ==
  <<users, numberOfPlants, posts, comments, nextPostId, nextCommentId,
    storeOrder, savedPosts, bio, resp, req, prevAnswer, postVersion,
    inflight>>

store == <<users, numberOfPlants, posts, comments, nextPostId, nextCommentId,
           storeOrder, savedPosts, bio>>

\* the documents alone: what a client can read back from the store
documents == <<users, numberOfPlants, posts, comments, savedPosts, bio>>

NoResp == [op |-> "none", status |-> 0]

NoReq == [op |-> "none"]

NoAnswer == [op |-> "none"]

\* what only SpecRepeat (prevAnswer) and SpecLike (postVersion, inflight)
\* keep track of
aux == <<prevAnswer, postVersion, inflight>>

\* a request of the ranking engine's specification arrives
Arrives == req' = [op |-> "any", docs |-> documents] /\ UNCHANGED aux

\* the request in progress is over
Leaves == req' = NoReq /\ UNCHANGED aux

\* no request arrives or leaves
Idle == UNCHANGED req /\ UNCHANGED aux

\* ---- helpers over the collections ----
Range(s) == {s[i] : i \in 1..Len(s)}

Registered == Range(users)

PostExists(p) == \E i \in 1..Len(posts) : posts[i].id = p

PostById(p) == posts[CHOOSE i \in 1..Len(posts) : posts[i].id = p]

\* Array.prototype.includes on a MongooseArray of ObjectIds
Includes(arr, x) == \E i \in 1..Len(arr) : arr[i] = x

\* Array.prototype.filter(e => e !== x)
FilterOut(arr, x) == SelectSeq(arr, LAMBDA e : e # x)

\* ---- queries of the store ----

\* timeFilter: { createdAt: { $gte: oneWeekAgo | oneMonthAgo } } or {}
InWindow(timeRange, age) ==
  IF timeRange = "week" THEN age = 0
  ELSE IF timeRange = "month" THEN age <= 1
  ELSE TRUE

Abs(n) == IF n < 0 THEN 0 - n ELSE n

Min(a, b) == IF a < b THEN a ELSE b

Max(a, b) == IF a > b THEN a ELSE b

\* the first n elements of s
Take(s, n) == SubSeq(s, 1, Min(n, Len(s)))

\* A descending sort that keeps the input order of equal keys: the store's
\* { field: -1 } sort and Array.prototype.sort((a, b) => b.k - a.k).
SortDesc(s, key) ==
  LET Pos(i) == 1 + Cardinality({j \in 1..Len(s) :
                      \/ key[j] > key[i]
                      \/ key[j] = key[i] /\ j < i})
  IN [p \in 1..Len(s) |-> s[CHOOSE i \in 1..Len(s) : Pos(i) = p]]

RECURSIVE SumSeq(_)
SumSeq(s) == IF s = <<>> THEN 0 ELSE Head(s) + SumSeq(Tail(s))

\* posts of user u matched by { ...timeFilter }
PostsOf(u, timeRange) ==
  SelectSeq(posts, LAMBDA q : q.user = u /\ InWindow(timeRange, q.age))

\* posts of user u matched by { ...timeFilter, plantType: { $ne: "Unknown" } }
PlantPostsOf(u, timeRange) ==
  SelectSeq(posts, LAMBDA q :
    q.user = u /\ InWindow(timeRange, q.age) /\ q.plantType # "Unknown")

CommentsOf(u, timeRange) ==
  SelectSeq(comments, LAMBDA c : c.user = u /\ InWindow(timeRange, c.age))

LikesOf(u, timeRange) ==
  LET mine == PostsOf(u, timeRange)
  IN SumSeq([i \in 1..Len(mine) |-> Len(mine[i].likes)])

\* User.find().sort({ numberOfPlants: -1 }).limit(limit); the driver sends a
\* negative limit as its absolute value (single batch)
UserFindSorted(limit) ==
  LET all == SelectSeq(storeOrder, LAMBDA u : u \in Registered)
  IN Take(SortDesc(all, [i \in 1..Len(all) |-> numberOfPlants[all[i]]]),
          Abs(limit))

\* User.find({ _id: { $in: ids } }): natural order of the collection
UserFindIn(ids) == SelectSeq(users, LAMBDA u : u \in ids)

\* Post.aggregate([$match plant posts in the window, $group by user,
\* $sort plantCount desc, $limit]); a $limit that is not positive is rejected
PlantAggregate(timeRange, limit) ==
  LET groupKeys == SelectSeq(storeOrder, LAMBDA u :
                     Len(PlantPostsOf(u, timeRange)) > 0)
      groups == [i \in 1..Len(groupKeys) |->
                   [id |-> groupKeys[i],
                    plantCount |-> Len(PlantPostsOf(groupKeys[i], timeRange))]]
  IN IF limit <= 0
       THEN [ok |-> FALSE, rows |-> <<>>]
       ELSE [ok |-> TRUE,
             rows |-> Take(SortDesc(groups, [i \in 1..Len(groups) |->
                                               groups[i].plantCount]),
                          limit)]

\* Post.aggregate([$match, $group postCount]),
\* Post.aggregate([$match, $project $size likes, $group totalLikes]),
\* Comment.aggregate([$match, $group commentCount])
PostCounts(timeRange) ==
  LET groupKeys == SelectSeq(storeOrder, LAMBDA u :
                     Len(PostsOf(u, timeRange)) > 0)
  IN [i \in 1..Len(groupKeys) |->
        [id |-> groupKeys[i], n |-> Len(PostsOf(groupKeys[i], timeRange))]]

LikeCounts(timeRange) ==
  LET groupKeys == SelectSeq(storeOrder, LAMBDA u :
                     Len(PostsOf(u, timeRange)) > 0)
  IN [i \in 1..Len(groupKeys) |->
        [id |-> groupKeys[i], n |-> LikesOf(groupKeys[i], timeRange)]]

CommentCounts(timeRange) ==
  LET groupKeys == SelectSeq(storeOrder, LAMBDA u :
                     Len(CommentsOf(u, timeRange)) > 0)
  IN [i \in 1..Len(groupKeys) |->
        [id |-> groupKeys[i], n |-> Len(CommentsOf(groupKeys[i], timeRange))]]

\* ---- getLeaderboard ----

\* a Map in insertion order: a sequence of [key, posts, likes, comments, total]
MapHas(m, k) == \E i \in 1..Len(m) : m[i].key = k

MapGet(m, k) == m[CHOOSE i \in 1..Len(m) : m[i].key = k]

MapSet(m, k, v) ==
  IF MapHas(m, k)
    THEN [i \in 1..Len(m) |-> IF m[i].key = k THEN v ELSE m[i]]
    ELSE Append(m, v)

NewEntry(k) == [key |-> k, posts |-> 0, likes |-> 0, comments |-> 0, total |-> 0]

\* postCounts.forEach: engagementMap.set(id, { posts, 0, 0, total: posts })
RECURSIVE AddPostCounts(_, _)
AddPostCounts(m, items) ==
  IF items = <<>> THEN m
  ELSE AddPostCounts(
         MapSet(m, Head(items).id,
           [NewEntry(Head(items).id) EXCEPT !.posts = Head(items).n,
                                            !.total = Head(items).n]),
         Tail(items))

\* likeCounts.forEach: existing.likes = totalLikes; existing.total += totalLikes
RECURSIVE AddLikeCounts(_, _)
AddLikeCounts(m, items) ==
  IF items = <<>> THEN m
  ELSE LET k == Head(items).id
           existing == IF MapHas(m, k) THEN MapGet(m, k) ELSE NewEntry(k)
       IN AddLikeCounts(
            MapSet(m, k, [existing EXCEPT !.likes = Head(items).n,
                                          !.total = @ + Head(items).n]),
            Tail(items))

\* AddCommentCounts with the total left as it was
RECURSIVE AddCommentCounts_NoTotal(_, _)
AddCommentCounts_NoTotal(m, items) ==
  IF items = <<>> THEN m
  ELSE LET k == Head(items).id
           existing == IF MapHas(m, k) THEN MapGet(m, k) ELSE NewEntry(k)
       IN AddCommentCounts_NoTotal(
            MapSet(m, k, [existing EXCEPT !.comments = Head(items).n]),
            Tail(items))

\* commentCounts.forEach: existing.comments = n; existing.total += n
RECURSIVE AddCommentCounts(_, _)
AddCommentCounts(m, items) ==
  IF items = <<>> THEN m
  ELSE LET k == Head(items).id
           existing == IF MapHas(m, k) THEN MapGet(m, k) ELSE NewEntry(k)
       IN AddCommentCounts(
            MapSet(m, k, [existing EXCEPT !.comments = Head(items).n,
                                          !.total = @ + Head(items).n]),
            Tail(items))

EngagementMap(timeRange) ==
  AddCommentCounts(
    AddLikeCounts(AddPostCounts(<<>>, PostCounts(timeRange)),
                  LikeCounts(timeRange)),
    CommentCounts(timeRange))

\* Array.prototype.slice(0, end): a negative end counts from the end
Slice0(s, end) ==
  IF end < 0 THEN SubSeq(s, 1, Max(Len(s) + end, 0)) ELSE Take(s, end)

\* SortedEngagement with the slice taken before the sort
SortedEngagement_SliceFirst(timeRange, limit) ==
  LET sliced == Slice0(EngagementMap(timeRange), limit)
  IN SortDesc(sliced, [i \in 1..Len(sliced) |-> sliced[i].total])

\* Array.from(engagementMap.entries()).sort(total desc).slice(0, limit)
SortedEngagement(timeRange, limit) ==
  LET entries == EngagementMap(timeRange)
  IN Slice0(SortDesc(entries, [i \in 1..Len(entries) |-> entries[i].total]),
            limit)

\* the "all" branch of plants, and the default branch
PlantsAllTime(limit) ==
  LET found == UserFindSorted(limit)
  IN [ok |-> TRUE,
      users |-> [i \in 1..Len(found) |->
        [id |-> found[i], numberOfPlants |-> numberOfPlants[found[i]],
         score |-> numberOfPlants[found[i]], category |-> "plants",
         rank |-> 0]]]

\* the week/month branch of plants
PlantsWindowed(timeRange, limit) ==
  LET plantPosts == PlantAggregate(timeRange, limit)
      rows == plantPosts.rows
      userIds == {rows[i].id : i \in 1..Len(rows)}
      found == UserFindIn(userIds)
      PlantCount(u) ==
        IF \E i \in 1..Len(rows) : rows[i].id = u
          THEN rows[CHOOSE i \in 1..Len(rows) : rows[i].id = u].plantCount
          ELSE 0
      mapped == [i \in 1..Len(found) |->
        [id |-> found[i], numberOfPlants |-> numberOfPlants[found[i]],
         score |-> PlantCount(found[i]), category |-> "plants", rank |-> 0]]
  IN [ok |-> plantPosts.ok, users |-> SortDesc(mapped, [i \in 1..Len(mapped) |-> mapped[i].score])]

\* the "all" branch of co2
Co2AllTime(limit) ==
  LET found == UserFindSorted(limit)
  IN [ok |-> TRUE,
      users |-> [i \in 1..Len(found) |->
        [id |-> found[i], numberOfPlants |-> numberOfPlants[found[i]],
         score |-> numberOfPlants[found[i]] * CO2PerPlant, category |-> "co2",
         rank |-> 0]]]

\* Co2Windowed with the plant count taken as the score
Co2Windowed_Unscaled(timeRange, limit) ==
  LET r == PlantsWindowed(timeRange, limit)
  IN [ok |-> r.ok,
      users |-> [i \in 1..Len(r.users) |-> [r.users[i] EXCEPT !.category = "co2"]]]

\* the week/month branch of co2
Co2Windowed(timeRange, limit) ==
  LET impactPosts == PlantAggregate(timeRange, limit)
      rows == impactPosts.rows
      userIds == {rows[i].id : i \in 1..Len(rows)}
      found == UserFindIn(userIds)
      Impact(u) ==
        IF \E i \in 1..Len(rows) : rows[i].id = u
          THEN rows[CHOOSE i \in 1..Len(rows) : rows[i].id = u].plantCount
                 * CO2PerPlant
          ELSE 0
      mapped == [i \in 1..Len(found) |->
        [id |-> found[i], numberOfPlants |-> numberOfPlants[found[i]],
         score |-> Impact(found[i]), category |-> "co2", rank |-> 0]]
  IN [ok |-> impactPosts.ok, users |-> SortDesc(mapped, [i \in 1..Len(mapped) |-> mapped[i].score])]

\* the engagement branch
Engagement(timeRange, limit) ==
  LET engagementMap == EngagementMap(timeRange)
      sortedEngagement == SortedEngagement(timeRange, limit)
      userIds == {sortedEngagement[i].key : i \in 1..Len(sortedEngagement)}
      found == UserFindIn(userIds)
      mapped == [i \in 1..Len(found) |->
        [id |-> found[i], numberOfPlants |-> numberOfPlants[found[i]],
         score |-> IF MapHas(engagementMap, found[i])
                     THEN MapGet(engagementMap, found[i]).total ELSE 0,
         category |-> "engagement", rank |-> 0]]
  IN [ok |-> TRUE, users |-> SortDesc(mapped, [i \in 1..Len(mapped) |-> mapped[i].score])]

\* switch (category)
Leaderboard(category, timeRange, limit) ==
  IF category = "plants"
    THEN IF timeRange = "all" THEN PlantsAllTime(limit)
         ELSE PlantsWindowed(timeRange, limit)
  ELSE IF category = "co2"
    THEN IF timeRange = "all" THEN Co2AllTime(limit)
         ELSE Co2Windowed(timeRange, limit)
  ELSE IF category = "engagement" THEN Engagement(timeRange, limit)
  ELSE PlantsAllTime(limit)

\* AddRank with the rank taken from the index as it is
AddRank_ZeroBased(list) == [i \in 1..Len(list) |-> [list[i] EXCEPT !.rank = i - 1]]

\* users.forEach((user, index) => { user.rank = index + 1 })
AddRank(list) == [i \in 1..Len(list) |-> [list[i] EXCEPT !.rank = i]]

\* parseInt(req.query.limit) || 10
ParseLimit(raw) ==
  IF raw.kind = "int" /\ raw.n # 0 THEN raw.n ELSE DefaultLimit

\* req.query.x || dflt
OrDefault(raw, dflt) == IF raw = "" THEN dflt ELSE raw

\* const logger = require(...) is missing from userController.js
LoggerInScope == FALSE

\* catch (error) { logger.error(...); next(error); } followed by the error
\* middleware of the application: the set of responses the request can get.
\* With logger not in scope the catch block itself throws a ReferenceError and
\* next(error) is never reached; the handler's promise rejects, and the
\* request is either left without a response (a router that ignores the
\* rejection) or answered 500 for the ReferenceError (a router that forwards
\* rejections), depending on the installed express.
CatchAndForward(op) ==
  IF LoggerInScope
    THEN {[op |-> op, status |-> 500, failed |-> TRUE, nextCalled |-> TRUE,
           error |-> "store"]}
    ELSE {[op |-> op, status |-> 0, failed |-> TRUE, nextCalled |-> FALSE,
           error |-> "ReferenceError"],
          [op |-> op, status |-> 500, failed |-> TRUE, nextCalled |-> FALSE,
           error |-> "ReferenceError"]}

\* userController.getLeaderboard; storeUp = FALSE: the store rejects the query
GetLeaderboard(rawCategory, rawTimeRange, rawLimit, storeUp) ==
  LET limit == ParseLimit(rawLimit)
      timeRange == OrDefault(rawTimeRange, "all")
      category == OrDefault(rawCategory, "plants")
      result == Leaderboard(category, timeRange, limit)
  IN /\ resp = NoResp
     /\ resp' \in
          IF storeUp /\ result.ok
            THEN {[op |-> "getLeaderboard", status |-> 200, failed |-> FALSE,
                   leaderboard |-> AddRank(result.users),
                   category |-> category, timeRange |-> timeRange,
                   limit |-> limit, totalUsers |-> Len(result.users)]}
            ELSE CatchAndForward("getLeaderboard")
     /\ UNCHANGED store

\* ---- getLeaderboardStats ----

\* CountInWindow that counts the whole collection
CountInWindow_AllTime(docs, timeRange) ==
  Len(SelectSeq(docs, LAMBDA d : InWindow("all", d.age)))

\* Post.countDocuments(timeFilter), Comment.countDocuments(timeFilter)
CountInWindow(docs, timeRange) ==
  Len(SelectSeq(docs, LAMBDA d : InWindow(timeRange, d.age)))

\* Post.aggregate([$match, $project $size likes, $group _id null $sum]);
\* totalLikes.length > 0 ? totalLikes[0].total : 0
TotalLikesInWindow(timeRange) ==
  LET matched == SelectSeq(posts, LAMBDA q : InWindow(timeRange, q.age))
  IN SumSeq([i \in 1..Len(matched) |-> Len(matched[i].likes)])

\* Post.aggregate([$match plant posts in the window, $group _id null $sum 1]);
\* totalPlants.length > 0 ? totalPlants[0].total : 0
TotalPlantsInWindow(timeRange) ==
  Len(SelectSeq(posts, LAMBDA q :
        InWindow(timeRange, q.age) /\ q.plantType # "Unknown"))

\* topPerformers.topPlantGrower; id 0 stands for null
TopPlantGrower(timeRange) ==
  IF timeRange = "all"
    THEN LET found == UserFindSorted(1)
         IN IF found = <<>> THEN [id |-> 0, plants |-> 0]
            ELSE [id |-> found[1], plants |-> numberOfPlants[found[1]]]
    ELSE LET rows == PlantAggregate(timeRange, 1).rows
             joined == SelectSeq(rows, LAMBDA r : r.id \in Registered)
         IN IF joined = <<>> THEN [id |-> 0, plants |-> 0]
            ELSE [id |-> joined[1].id, plants |-> joined[1].plantCount]

\* PlatformStats with the impact taken from the lifetime counters
PlatformStats_LifetimeImpact(timeRange, category) ==
  [totalUsers |-> Len(users),
   totalPosts |-> CountInWindow(posts, timeRange),
   totalComments |-> CountInWindow(comments, timeRange),
   totalLikes |-> TotalLikesInWindow(timeRange),
   totalPlants |-> TotalPlantsInWindow(timeRange),
   environmentalImpact |->
     SumSeq([i \in 1..Len(users) |-> numberOfPlants[users[i]]]) * CO2PerPlant,
   timeRange |-> timeRange, category |-> category]

PlatformStats(timeRange, category) ==
  LET totalPlantsCount == TotalPlantsInWindow(timeRange)
  IN [totalUsers |-> Len(users),
      totalPosts |-> CountInWindow(posts, timeRange),
      totalComments |-> CountInWindow(comments, timeRange),
      totalLikes |-> TotalLikesInWindow(timeRange),
      totalPlants |-> totalPlantsCount,
      environmentalImpact |-> totalPlantsCount * CO2PerPlant,
      timeRange |-> timeRange, category |-> category]

\* GetLeaderboardStats that stores the plant posts it counted back on the users
GetLeaderboardStats_WriteBack(rawTimeRange, rawCategory, storeUp) ==
  LET timeRange == OrDefault(rawTimeRange, "all")
      category == OrDefault(rawCategory, "plants")
  IN /\ resp = NoResp
     /\ resp' \in
          IF storeUp
            THEN {[op |-> "getLeaderboardStats", status |-> 200,
                   failed |-> FALSE,
                   platformStats |-> PlatformStats(timeRange, category),
                   topPlantGrower |-> TopPlantGrower(timeRange)]}
            ELSE CatchAndForward("getLeaderboardStats")
     /\ numberOfPlants' = [u \in UserIds |-> Len(PlantPostsOf(u, "all"))]
     /\ UNCHANGED <<users, posts, comments, nextPostId, nextCommentId,
                    storeOrder, savedPosts, bio>>

\* userController.getLeaderboardStats
GetLeaderboardStats(rawTimeRange, rawCategory, storeUp) ==
  LET timeRange == OrDefault(rawTimeRange, "all")
      category == OrDefault(rawCategory, "plants")
  IN /\ resp = NoResp
     /\ resp' \in
          IF storeUp
            THEN {[op |-> "getLeaderboardStats", status |-> 200,
                   failed |-> FALSE,
                   platformStats |-> PlatformStats(timeRange, category),
                   topPlantGrower |-> TopPlantGrower(timeRange)]}
            ELSE CatchAndForward("getLeaderboardStats")
     /\ UNCHANGED store

\* ---- getUserProfile ----

ProfileStats(u) ==
  LET mine == SelectSeq(posts, LAMBDA q : q.user = u)
      environmentalImpact == numberOfPlants[u] * CO2PerPlant
  IN [posts |-> Len(mine),
      plants |-> numberOfPlants[u],
      likesReceived |-> SumSeq([i \in 1..Len(mine) |-> Len(mine[i].likes)]),
      environmentalImpact |-> environmentalImpact]

\* userController.getUserProfile
GetUserProfile(id) ==
  /\ resp = NoResp
  /\ resp' = IF id \notin Registered
               THEN [op |-> "getUserProfile", status |-> 404]
               ELSE [op |-> "getUserProfile", status |-> 200, id |-> id,
                     stats |-> ProfileStats(id)]
  /\ UNCHANGED store

\* ---- write handlers ----

TotalLikes == SumSeq([i \in 1..Len(posts) |-> Len(posts[i].likes)])

\* authController.register: User.create with the schema defaults
Register(u) ==
  /\ resp = NoResp
  /\ u = Len(users) + 1
  /\ users' = Append(users, u)
  /\ numberOfPlants' = [numberOfPlants EXCEPT ![u] = 0]
  /\ resp' = [op |-> "register", status |-> 201]
  /\ UNCHANGED <<posts, comments, nextPostId, nextCommentId, storeOrder,
                 savedPosts, bio>>

\* CreatePost that counts every plantType the body carries
CreatePost_CountsAnyType(u, plantType, input) ==
  /\ resp = NoResp
  /\ u \in Registered
  /\ IF input \in {"badLocation", "noImage"}
       THEN /\ resp' = [op |-> "createPost", status |-> 400]
            /\ UNCHANGED store
     ELSE IF input \in {"uploadFails", "saveFails"}
       THEN /\ resp' = [op |-> "createPost", status |-> 500]
            /\ UNCHANGED store
     ELSE /\ posts' = Append(posts,
                 [id |-> nextPostId, user |-> u,
                  plantType |-> IF plantType = "" THEN "Unknown" ELSE plantType,
                  likes |-> <<>>, savedBy |-> <<>>, age |-> 0])
          /\ nextPostId' = nextPostId + 1
          /\ IF input = "incFails" /\ plantType # ""
               THEN /\ UNCHANGED numberOfPlants
                    /\ resp' = [op |-> "createPost", status |-> 500]
               ELSE /\ numberOfPlants' =
                         IF plantType # ""
                           THEN [numberOfPlants EXCEPT ![u] = @ + 1]
                           ELSE numberOfPlants
                    /\ resp' = [op |-> "createPost", status |-> 201]
          /\ UNCHANGED <<users, comments, nextCommentId, storeOrder,
                         savedPosts, bio>>

\* postController.createPost. input "saveFails": newPost.save() rejects;
\* "incFails": User.findByIdAndUpdate rejects after the post was saved (it is
\* only called for a plant type that counts). Both land in the catch block.
CreatePost(u, plantType, input) ==
  /\ resp = NoResp
  /\ u \in Registered
  /\ IF input \in {"badLocation", "noImage"}
       THEN /\ resp' = [op |-> "createPost", status |-> 400]
            /\ UNCHANGED store
     ELSE IF input = "uploadFails"
       THEN /\ resp' = [op |-> "createPost", status |-> 500]
            /\ UNCHANGED store
     ELSE IF input = "saveFails"
       THEN /\ resp' = [op |-> "createPost", status |-> 500]
            /\ UNCHANGED store
     ELSE /\ posts' = Append(posts,
                 [id |-> nextPostId, user |-> u,
                  plantType |-> IF plantType = "" THEN "Unknown" ELSE plantType,
                  likes |-> <<>>, savedBy |-> <<>>, age |-> 0])
          /\ nextPostId' = nextPostId + 1
          /\ IF input = "incFails" /\ plantType # "" /\ plantType # "Unknown"
               THEN /\ UNCHANGED numberOfPlants
                    /\ resp' = [op |-> "createPost", status |-> 500]
               ELSE /\ numberOfPlants' =
                         IF plantType # "" /\ plantType # "Unknown"
                           THEN [numberOfPlants EXCEPT ![u] = @ + 1]
                           ELSE numberOfPlants
                    /\ resp' = [op |-> "createPost", status |-> 201]
          /\ UNCHANGED <<users, comments, nextCommentId, storeOrder,
                 savedPosts, bio>>

\* UpdatePost that counts a post turned from "Unknown" into a plant
UpdatePost_Recount(u, p, plantType) ==
  /\ resp = NoResp
  /\ u \in Registered
  /\ IF ~PostExists(p)
       THEN /\ resp' = [op |-> "updatePost", status |-> 404]
            /\ UNCHANGED store
     ELSE IF PostById(p).user # u
       THEN /\ resp' = [op |-> "updatePost", status |-> 401]
            /\ UNCHANGED store
     ELSE /\ posts' = [i \in 1..Len(posts) |->
                 IF posts[i].id = p
                   THEN [posts[i] EXCEPT !.plantType =
                           IF plantType = "" THEN @ ELSE plantType]
                   ELSE posts[i]]
          /\ numberOfPlants' =
               IF PostById(p).plantType = "Unknown" /\ plantType # ""
                 THEN [numberOfPlants EXCEPT ![u] = @ + 1]
                 ELSE numberOfPlants
          /\ resp' = [op |-> "updatePost", status |-> 200]
          /\ UNCHANGED <<users, comments, nextPostId, nextCommentId,
                         storeOrder, savedPosts, bio>>

\* postController.updatePost
UpdatePost(u, p, plantType) ==
  /\ resp = NoResp
  /\ u \in Registered
  /\ IF ~PostExists(p)
       THEN /\ resp' = [op |-> "updatePost", status |-> 404]
            /\ UNCHANGED store
     ELSE IF PostById(p).user # u
       THEN /\ resp' = [op |-> "updatePost", status |-> 401]
            /\ UNCHANGED store
     ELSE /\ posts' = [i \in 1..Len(posts) |->
                 IF posts[i].id = p
                   THEN [posts[i] EXCEPT !.plantType =
                           IF plantType = "" THEN @ ELSE plantType]
                   ELSE posts[i]]
          /\ resp' = [op |-> "updatePost", status |-> 200]
          /\ UNCHANGED <<users, numberOfPlants, comments, nextPostId,
                         nextCommentId, storeOrder,
                 savedPosts, bio>>

\* DeletePost without the comparison of post.user with req.user
DeletePost_NoOwnerCheck(u, p) ==
  /\ resp = NoResp
  /\ u \in Registered
  /\ IF ~PostExists(p)
       THEN /\ resp' = [op |-> "deletePost", status |-> 404]
            /\ UNCHANGED store
     ELSE /\ numberOfPlants' =
               IF PostById(p).plantType # "Unknown"
                 THEN [numberOfPlants EXCEPT ![u] = @ - 1]
                 ELSE numberOfPlants
          /\ posts' = SelectSeq(posts, LAMBDA q : q.id # p)
          /\ resp' = [op |-> "deletePost", status |-> 200]
          /\ UNCHANGED <<users, comments, nextPostId, nextCommentId,
                         storeOrder, savedPosts, bio>>

\* postController.deletePost
DeletePost(u, p) ==
  /\ resp = NoResp
  /\ u \in Registered
  /\ IF ~PostExists(p)
       THEN /\ resp' = [op |-> "deletePost", status |-> 404]
            /\ UNCHANGED store
     ELSE IF PostById(p).user # u
       THEN /\ resp' = [op |-> "deletePost", status |-> 401]
            /\ UNCHANGED store
     ELSE /\ numberOfPlants' =
               IF PostById(p).plantType # "Unknown"
                 THEN [numberOfPlants EXCEPT ![u] = @ - 1]
                 ELSE numberOfPlants
          /\ posts' = SelectSeq(posts, LAMBDA q : q.id # p)
          /\ resp' = [op |-> "deletePost", status |-> 200]
          /\ UNCHANGED <<users, comments, nextPostId, nextCommentId,
                         storeOrder,
                 savedPosts, bio>>

\* ToggleLike that answers with the membership it found
ToggleLike_StaleIsLiked(u, p) ==
  /\ resp = NoResp
  /\ u \in Registered
  /\ IF ~PostExists(p)
       THEN /\ resp' = [op |-> "toggleLike", status |-> 404]
            /\ UNCHANGED store
     ELSE LET alreadyLiked == Includes(PostById(p).likes, u)
              likes == IF alreadyLiked
                         THEN FilterOut(PostById(p).likes, u)
                         ELSE Append(PostById(p).likes, u)
          IN /\ posts' = [i \in 1..Len(posts) |->
                    IF posts[i].id = p
                      THEN [posts[i] EXCEPT !.likes = likes]
                      ELSE posts[i]]
             /\ resp' = [op |-> "toggleLike", status |-> 200,
                         likesCount |-> Len(likes), isLiked |-> alreadyLiked]
             /\ UNCHANGED <<users, numberOfPlants, comments, nextPostId,
                            nextCommentId, storeOrder, savedPosts, bio>>

\* postController.toggleLike
ToggleLike(u, p) ==
  /\ resp = NoResp
  /\ u \in Registered
  /\ IF ~PostExists(p)
       THEN /\ resp' = [op |-> "toggleLike", status |-> 404]
            /\ UNCHANGED store
     ELSE LET alreadyLiked == Includes(PostById(p).likes, u)
              likes == IF alreadyLiked
                         THEN FilterOut(PostById(p).likes, u)
                         ELSE Append(PostById(p).likes, u)
          IN /\ posts' = [i \in 1..Len(posts) |->
                    IF posts[i].id = p
                      THEN [posts[i] EXCEPT !.likes = likes]
                      ELSE posts[i]]
             /\ resp' = [op |-> "toggleLike", status |-> 200,
                         likesCount |-> Len(likes), isLiked |-> ~alreadyLiked]
             /\ UNCHANGED <<users, numberOfPlants, comments, nextPostId,
                            nextCommentId, storeOrder,
                 savedPosts, bio>>

\* postController.addComment; parentComment 0 stands for null
AddComment(u, p, parentComment) ==
  /\ resp = NoResp
  /\ u \in Registered
  /\ IF ~PostExists(p)
       THEN /\ resp' = [op |-> "addComment", status |-> 404]
            /\ UNCHANGED store
     ELSE /\ comments' = Append(comments,
                 [id |-> nextCommentId, post |-> p, user |-> u,
                  parentComment |-> parentComment, likes |-> <<>>,
                  age |-> 0])
          /\ nextCommentId' = nextCommentId + 1
          /\ resp' = [op |-> "addComment", status |-> 201]
          /\ UNCHANGED <<users, numberOfPlants, posts, nextPostId, storeOrder,
                 savedPosts, bio>>

CommentExists(c) == \E i \in 1..Len(comments) : comments[i].id = c

CommentById(c) == comments[CHOOSE i \in 1..Len(comments) : comments[i].id = c]

\* postController.toggleSave
ToggleSave(u, p) ==
  /\ resp = NoResp
  /\ u \in Registered
  /\ IF ~PostExists(p)
       THEN /\ resp' = [op |-> "toggleSave", status |-> 404]
            /\ UNCHANGED store
     ELSE LET alreadySaved == Includes(PostById(p).savedBy, u)
              userHasSaved == Includes(savedPosts[u], p)
              savedBy == IF alreadySaved
                           THEN FilterOut(PostById(p).savedBy, u)
                           ELSE Append(PostById(p).savedBy, u)
              mine == IF userHasSaved
                        THEN FilterOut(savedPosts[u], p)
                        ELSE Append(savedPosts[u], p)
          IN /\ posts' = [i \in 1..Len(posts) |->
                    IF posts[i].id = p
                      THEN [posts[i] EXCEPT !.savedBy = savedBy]
                      ELSE posts[i]]
             /\ savedPosts' = [savedPosts EXCEPT ![u] = mine]
             /\ resp' = [op |-> "toggleSave", status |-> 200,
                         isSaved |-> ~alreadySaved]
             /\ UNCHANGED <<users, numberOfPlants, comments, nextPostId,
                            nextCommentId, storeOrder, bio>>

\* postController.deleteComment; req.params.id (the post) is not looked at
DeleteComment(u, c) ==
  /\ resp = NoResp
  /\ u \in Registered
  /\ IF ~CommentExists(c)
       THEN /\ resp' = [op |-> "deleteComment", status |-> 404]
            /\ UNCHANGED store
     ELSE IF CommentById(c).user # u
       THEN /\ resp' = [op |-> "deleteComment", status |-> 401]
            /\ UNCHANGED store
     ELSE LET withoutReplies ==
                IF CommentById(c).parentComment = 0
                  THEN SelectSeq(comments, LAMBDA d : d.parentComment # c)
                  ELSE comments
          IN /\ comments' = SelectSeq(withoutReplies, LAMBDA d : d.id # c)
             /\ resp' = [op |-> "deleteComment", status |-> 200]
             /\ UNCHANGED <<users, numberOfPlants, posts, nextPostId,
                            nextCommentId, storeOrder, savedPosts, bio>>

\* postController.toggleCommentLike
ToggleCommentLike(u, c) ==
  /\ resp = NoResp
  /\ u \in Registered
  /\ IF ~CommentExists(c)
       THEN /\ resp' = [op |-> "toggleCommentLike", status |-> 404]
            /\ UNCHANGED store
     ELSE LET alreadyLiked == Includes(CommentById(c).likes, u)
              likes == IF alreadyLiked
                         THEN FilterOut(CommentById(c).likes, u)
                         ELSE Append(CommentById(c).likes, u)
          IN /\ comments' = [i \in 1..Len(comments) |->
                    IF comments[i].id = c
                      THEN [comments[i] EXCEPT !.likes = likes]
                      ELSE comments[i]]
             /\ resp' = [op |-> "toggleCommentLike", status |-> 200,
                         isLiked |-> ~alreadyLiked]
             /\ UNCHANGED <<users, numberOfPlants, posts, nextPostId,
                            nextCommentId, storeOrder, savedPosts, bio>>

\* authController.updateProfile; bioInput "-" stands for a body without bio
UpdateProfile(u, bioInput) ==
  /\ resp = NoResp
  /\ u \in Registered
  /\ bio' = IF bioInput # "-" THEN [bio EXCEPT ![u] = bioInput] ELSE bio
  /\ resp' = [op |-> "updateProfile", status |-> 200,
              plantsCount |-> numberOfPlants[u],
              savedCount |-> Len(savedPosts[u])]
  /\ UNCHANGED <<users, numberOfPlants, posts, comments, nextPostId,
                 nextCommentId, storeOrder, savedPosts>>

\* GetUserSavedPosts without the comparison of the requester with :id
GetUserSavedPosts_AnyRequester(u, id) ==
  /\ resp = NoResp
  /\ u \in Registered
  /\ IF id \notin Registered
       THEN resp' = [op |-> "getUserSavedPosts", status |-> 404]
       ELSE LET populated == SelectSeq(savedPosts[id], PostExists)
            IN resp' = [op |-> "getUserSavedPosts", status |-> 200,
                        of |-> id, posts |-> populated,
                        count |-> Len(populated)]
  /\ UNCHANGED store

\* userController.getUserSavedPosts; populate drops the saved posts that no
\* longer exist
GetUserSavedPosts(u, id) ==
  /\ resp = NoResp
  /\ u \in Registered
  /\ IF u # id
       THEN resp' = [op |-> "getUserSavedPosts", status |-> 401]
     ELSE IF id \notin Registered
       THEN resp' = [op |-> "getUserSavedPosts", status |-> 404]
     ELSE LET populated == SelectSeq(savedPosts[id], PostExists)
          IN resp' = [op |-> "getUserSavedPosts", status |-> 200,
                      of |-> id, posts |-> populated,
                      count |-> Len(populated)]
  /\ UNCHANGED store

\* ---- middleware/auth.js ----

\* The Authorization header. kind "none": no header, or one that does not
\* start with Bearer; "valid": a token that jwt.verify accepts under
\* JWT_SECRET, carrying id; "invalid": a token carrying id that jwt.verify
\* rejects (signed with another secret, or expired).
Credentials ==
  {[kind |-> "none", id |-> 0]}
    \cup {[kind |-> "valid", id |-> u] : u \in UserIds}
    \cup {[kind |-> "invalid", id |-> 1]}

\* Protect with the token decoded but not verified
Protect_DecodeOnly(cred) ==
  IF cred.kind = "none" THEN [ok |-> FALSE, user |-> 0]
  ELSE IF cred.id \notin Registered THEN [ok |-> FALSE, user |-> 0]
  ELSE [ok |-> TRUE, user |-> cred.id]

\* protect: ok and req.user, or the 401 it answers itself
Protect(cred) ==
  IF cred.kind = "none" THEN [ok |-> FALSE, user |-> 0]
  ELSE IF cred.kind # "valid" THEN [ok |-> FALSE, user |-> 0]
  ELSE IF cred.id \notin Registered THEN [ok |-> FALSE, user |-> 0]
  ELSE [ok |-> TRUE, user |-> cred.id]

\* res.status(401).json(...) of protect: the handler is not called
Unauthorized(op) ==
  /\ resp = NoResp
  /\ resp' = [op |-> op, status |-> 401, by |-> "protect"]
  /\ UNCHANGED store

\* the router hands a request to its route: op, credentials and the id in
\* the path (0 where the route has none)
Received(op, cred, target) ==
  /\ req' = [op |-> op, docs |-> documents, cred |-> cred, target |-> target]
  /\ UNCHANGED aux

\* ---- routes/posts.js, routes/users.js, routes/auth.js ----

\* the router hands over a request whose body matters afterwards
ReceivedBody(op, cred, plantType) ==
  /\ req' = [op |-> op, docs |-> documents, cred |-> cred, target |-> 0,
             plantType |-> plantType]
  /\ UNCHANGED aux

\* router.post("/", protect, ..., createPost)
RouteCreatePost(cred, plantType, input) ==
  /\ ReceivedBody("createPost", cred, plantType)
  /\ IF Protect(cred).ok
       THEN CreatePost(Protect(cred).user, plantType, input)
       ELSE Unauthorized("createPost")

\* router.put("/:id", protect, updatePost)
RouteUpdatePost(cred, p, plantType) ==
  /\ Received("updatePost", cred, p)
  /\ IF Protect(cred).ok
       THEN UpdatePost(Protect(cred).user, p, plantType)
       ELSE Unauthorized("updatePost")

\* router.delete("/:id", protect, deletePost)
RouteDeletePost(cred, p) ==
  /\ Received("deletePost", cred, p)
  /\ IF Protect(cred).ok
       THEN DeletePost(Protect(cred).user, p)
       ELSE Unauthorized("deletePost")

\* router.post("/:id/like", protect, toggleLike)
RouteToggleLike(cred, p) ==
  /\ Received("toggleLike", cred, p)
  /\ IF Protect(cred).ok
       THEN ToggleLike(Protect(cred).user, p)
       ELSE Unauthorized("toggleLike")

\* router.post("/:id/save", protect, toggleSave)
RouteToggleSave(cred, p) ==
  /\ Received("toggleSave", cred, p)
  /\ IF Protect(cred).ok
       THEN ToggleSave(Protect(cred).user, p)
       ELSE Unauthorized("toggleSave")

\* router.post("/:id/comments", protect, commentValidation, addComment);
\* commentValidation accepts every well-formed parentComment id
RouteAddComment(cred, p, parentComment) ==
  /\ Received("addComment", cred, p)
  /\ IF Protect(cred).ok
       THEN AddComment(Protect(cred).user, p, parentComment)
       ELSE Unauthorized("addComment")

\* router.delete("/:id/comments/:commentId", protect, deleteComment)
RouteDeleteComment(cred, c) ==
  /\ Received("deleteComment", cred, c)
  /\ IF Protect(cred).ok
       THEN DeleteComment(Protect(cred).user, c)
       ELSE Unauthorized("deleteComment")

\* router.post("/:id/comments/:commentId/like", protect, toggleCommentLike)
RouteToggleCommentLike(cred, c) ==
  /\ Received("toggleCommentLike", cred, c)
  /\ IF Protect(cred).ok
       THEN ToggleCommentLike(Protect(cred).user, c)
       ELSE Unauthorized("toggleCommentLike")

\* router.get("/:id/saved", protect, getUserSavedPosts)
RouteGetUserSavedPosts(cred, id) ==
  /\ Received("getUserSavedPosts", cred, id)
  /\ IF Protect(cred).ok
       THEN GetUserSavedPosts(Protect(cred).user, id)
       ELSE Unauthorized("getUserSavedPosts")

\* router.put("/me", protect, updateProfile)
RouteUpdateProfile(cred, bioInput) ==
  /\ Received("updateProfile", cred, 0)
  /\ IF Protect(cred).ok
       THEN UpdateProfile(Protect(cred).user, bioInput)
       ELSE Unauthorized("updateProfile")

\* router.post("/register", registerValidation, register)
RouteRegister(u) ==
  /\ Received("register", [kind |-> "none", id |-> 0], 0)
  /\ Register(u)

\* More than a month passes: every document is now older than the windows.
Older(doc) == [doc EXCEPT !.age = 2]

Tick ==
  /\ resp = NoResp
  /\ (\E i \in 1..Len(posts) : posts[i].age < 2)
       \/ (\E j \in 1..Len(comments) : comments[j].age < 2)
  /\ posts' = [i \in 1..Len(posts) |-> Older(posts[i])]
  /\ comments' = [i \in 1..Len(comments) |-> Older(comments[i])]
  /\ UNCHANGED <<users, numberOfPlants, nextPostId, nextCommentId, storeOrder,
                 savedPosts, bio, resp>>

\* res.json(...) / res.status(...).json(...) has been sent (or the client has
\* given up on a request that got no response): the request is over
EndRequest ==
  /\ resp # NoResp
  /\ resp' = NoResp
  /\ UNCHANGED store

\* A restore, a resync or a failover: the same documents in another
\* incidental order.
Reorder ==
  /\ resp = NoResp
  /\ Cardinality(Registered) > 1
  /\ storeOrder' \in Permutations(UserIds) \ {storeOrder}
  /\ UNCHANGED <<users, numberOfPlants, posts, comments, nextPostId,
                 nextCommentId, savedPosts, bio, resp>>

Init ==
  /\ users = <<>>
  /\ numberOfPlants = [u \in UserIds |-> 0]
  /\ posts = <<>>
  /\ comments = <<>>
  /\ nextPostId = 1
  /\ nextCommentId = 1
  /\ storeOrder \in Permutations(UserIds)
  /\ savedPosts = [u \in UserIds |-> <<>>]
  /\ bio = [u \in UserIds |-> ""]
  /\ resp = NoResp
  /\ req = NoReq
  /\ prevAnswer = NoAnswer
  /\ postVersion = [p \in PostIds |-> 0]
  /\ inflight = {}

\* The ranking engine and the handlers that feed it, one request at a time.
\* req.user is a registered user (protect has run); the collections are
\* capped at MaxPosts, MaxComments and MaxLikes.
Next ==
  \/ \E u \in UserIds : Register(u) /\ Arrives
  \/ \E u \in UserIds, t \in PlantTypeInputs, i \in CreateInputs :
       /\ IF i = "ok" THEN nextPostId <= MaxPosts ELSE TRUE
       /\ CreatePost(u, t, i)
       /\ Arrives
  \/ \E u \in UserIds, p \in PostIds, t \in UpdateTypeInputs :
       UpdatePost(u, p, t) /\ Arrives
  \/ \E u \in UserIds, p \in PostIds : DeletePost(u, p) /\ Arrives
  \/ \E u \in UserIds, p \in PostIds :
       /\ IF PostExists(p) /\ ~Includes(PostById(p).likes, u)
            THEN TotalLikes < MaxLikes
            ELSE TRUE
       /\ ToggleLike(u, p)
       /\ Arrives
  \/ \E u \in UserIds, p \in PostIds,
        c \in {0} \cup {comments[i].id : i \in 1..Len(comments)} :
       /\ IF PostExists(p) THEN nextCommentId <= MaxComments ELSE TRUE
       /\ AddComment(u, p, c)
       /\ Arrives
  \/ Tick /\ Idle
  \/ Reorder /\ Idle
  \/ EndRequest /\ Leaves
  \/ \E c \in CategoryInputs, t \in TimeRangeInputs, l \in LimitInputs :
       GetLeaderboard(c, t, l, TRUE) /\ Arrives
  \/ \E c \in {""}, t \in {""}, l \in {[kind |-> "absent", n |-> 0]} :
       GetLeaderboard(c, t, l, FALSE) /\ Arrives
  \/ \E t \in TimeRangeInputs, c \in CategoryInputs :
       GetLeaderboardStats(t, c, TRUE) /\ Arrives
  \/ \E t \in {""}, c \in {""} :
       GetLeaderboardStats(t, c, FALSE) /\ Arrives
  \/ \E id \in UserIds : GetUserProfile(id) /\ Arrives

Spec == Init /\ [][Next]_vars

\* ---- the protected routes ----

\* request bodies of the protected routes
ApiPlantTypes == {"", "Rose"}
ApiCreateInputs == {"ok", "noImage"}
BioInputs == {"-", "gardener"}

TotalSaved == SumSeq([i \in 1..NumUsers |-> Len(savedPosts[i])])

TotalCommentLikes ==
  SumSeq([i \in 1..Len(comments) |-> Len(comments[i].likes)])

\* Every protected route, and register, one request at a time, for every
\* kind of credentials. The collections are capped at ApiMaxPosts,
\* MaxComments, MaxLikes (post and comment likes together) and MaxSaves.
NextApi ==
  \/ \E u \in UserIds : RouteRegister(u)
  \/ \E cred \in Credentials, t \in ApiPlantTypes, i \in ApiCreateInputs :
       /\ IF Protect(cred).ok /\ i = "ok"
            THEN nextPostId <= ApiMaxPosts ELSE TRUE
       /\ RouteCreatePost(cred, t, i)
  \/ \E cred \in Credentials, p \in PostIds, t \in UpdateTypeInputs :
       RouteUpdatePost(cred, p, t)
  \/ \E cred \in Credentials, p \in PostIds : RouteDeletePost(cred, p)
  \/ \E cred \in Credentials, p \in PostIds :
       /\ IF Protect(cred).ok /\ PostExists(p)
            THEN \/ Includes(PostById(p).likes, Protect(cred).user)
                 \/ TotalLikes + TotalCommentLikes < MaxLikes
            ELSE TRUE
       /\ RouteToggleLike(cred, p)
  \/ \E cred \in Credentials, p \in PostIds :
       /\ IF Protect(cred).ok /\ PostExists(p)
            THEN \/ Includes(savedPosts[Protect(cred).user], p)
                 \/ TotalSaved < MaxSaves
            ELSE TRUE
       /\ RouteToggleSave(cred, p)
  \/ \E cred \in Credentials, p \in PostIds,
        c \in {0} \cup {comments[i].id : i \in 1..Len(comments)} :
       /\ IF Protect(cred).ok /\ PostExists(p)
            THEN nextCommentId <= MaxComments ELSE TRUE
       /\ RouteAddComment(cred, p, c)
  \/ \E cred \in Credentials, c \in CommentIds :
       RouteDeleteComment(cred, c)
  \/ \E cred \in Credentials, c \in CommentIds :
       /\ IF Protect(cred).ok /\ CommentExists(c)
            THEN \/ Includes(CommentById(c).likes, Protect(cred).user)
                 \/ TotalLikes + TotalCommentLikes < MaxLikes
            ELSE TRUE
       /\ RouteToggleCommentLike(cred, c)
  \/ \E cred \in Credentials, id \in UserIds :
       RouteGetUserSavedPosts(cred, id)
  \/ \E cred \in Credentials, b \in BioInputs : RouteUpdateProfile(cred, b)
  \/ EndRequest /\ Leaves

\* the store's incidental order plays no part in these routes
InitApi == Init /\ storeOrder = [i \in UserIds |-> i]

SpecApi == InitApi /\ [][NextApi]_vars

\* ---- repeated leaderboard requests ----

\* the parameters a client repeats: every category, a positive limit
RepeatTimeRanges == {"", "week"}
RepeatLimits == {[kind |-> "absent", n |-> 0], [kind |-> "int", n |-> 1]}

\* a request that may write arrives: an answer given before it is no longer
\* an answer for the same documents
Forgets ==
  /\ req' = [op |-> "any", docs |-> documents]
  /\ prevAnswer' = NoAnswer
  /\ UNCHANGED <<postVersion, inflight>>

\* the request in progress is over; a leaderboard that was sent is what the
\* client compares the next one with
Remembers ==
  /\ req' = NoReq
  /\ prevAnswer' =
       IF resp.op = "getLeaderboard" /\ ~resp.failed
         THEN [op |-> "getLeaderboard", category |-> resp.category,
               timeRange |-> resp.timeRange, limit |-> resp.limit,
               leaderboard |-> resp.leaderboard]
         ELSE prevAnswer
  /\ UNCHANGED <<postVersion, inflight>>

\* Users register and post, and a client asks for leaderboards again and
\* again while the store is restored, resynced or failed over.
NextRepeat ==
  \/ \E u \in UserIds : Register(u) /\ Forgets
  \/ \E u \in UserIds, t \in PlantTypeInputs :
       /\ nextPostId <= MaxPosts
       /\ CreatePost(u, t, "ok")
       /\ Forgets
  \/ Reorder /\ Idle
  \/ EndRequest /\ Remembers
  \/ \E c \in CategoryInputs, t \in RepeatTimeRanges, l \in RepeatLimits :
       GetLeaderboard(c, t, l, TRUE) /\ Arrives

SpecRepeat == Init /\ [][NextRepeat]_vars

\* ---- properties of the responses ----

IsLeaderboard == resp.op = "getLeaderboard" /\ ~resp.failed

IsStats == resp.op = "getLeaderboardStats" /\ ~resp.failed

\* the score of user u for a category and window, counted from the store
PlantsInWindow(u, timeRange) ==
  Cardinality({i \in 1..Len(posts) :
    /\ posts[i].user = u
    /\ posts[i].plantType # "Unknown"
    /\ InWindow(timeRange, posts[i].age)})

EngagementOf(u, timeRange) ==
  Cardinality({i \in 1..Len(posts) :
      posts[i].user = u /\ InWindow(timeRange, posts[i].age)})
  + SumSeq([i \in 1..Len(posts) |->
      IF posts[i].user = u /\ InWindow(timeRange, posts[i].age)
        THEN Len(posts[i].likes) ELSE 0])
  + Cardinality({i \in 1..Len(comments) :
      comments[i].user = u /\ InWindow(timeRange, comments[i].age)})

ScoreOf(u, category, timeRange) ==
  IF category = "engagement" THEN EngagementOf(u, timeRange)
  ELSE IF category = "co2"
    THEN 20 * (IF timeRange = "all" THEN numberOfPlants[u]
               ELSE PlantsInWindow(u, timeRange))
  ELSE IF category = "plants"
    THEN IF timeRange = "all" THEN numberOfPlants[u]
         ELSE PlantsInWindow(u, timeRange)
  ELSE numberOfPlants[u]

Listed == {resp.leaderboard[i].id : i \in 1..Len(resp.leaderboard)}

\* the users, order, scores and ranks of a list are those of the result r of
\* Leaderboard
SameRanking(list, r) ==
  /\ r.ok
  /\ Len(list) = Len(r.users)
  /\ \A i \in 1..Len(list) :
       /\ list[i].id = r.users[i].id
       /\ list[i].score = r.users[i].score
       /\ list[i].rank = i

\* C1: a returned leaderboard of N entries carries the ranks 1..N in list
\* order, and the scores do not increase as the rank increases.
C1_RanksDenseAndOrdered ==
  IsLeaderboard =>
    \A i \in 1..Len(resp.leaderboard) :
      /\ resp.leaderboard[i].rank = i
      /\ i < Len(resp.leaderboard) =>
           resp.leaderboard[i].score >= resp.leaderboard[i + 1].score

\* two users tied on a windowed plants leaderboard, ranked 1 and 2
C1_Witness ==
  /\ IsLeaderboard
  /\ resp.category = "plants" /\ resp.timeRange = "week"
  /\ Len(resp.leaderboard) = 2
  /\ resp.leaderboard[1].score = resp.leaderboard[2].score
  /\ resp.leaderboard[1].score > 0
  /\ resp.leaderboard[2].rank = 2

\* C2: the number of entries of a returned leaderboard is at most the limit
\* echoed in the response, whatever the limit parameter was.
C2_LengthAtMostLimit ==
  IsLeaderboard => Len(resp.leaderboard) <= resp.limit

\* C3: no registered user left out of a returned leaderboard has a strictly
\* higher score, for the category and window of the request, than a user in it.
C3_TruncationAfterSort ==
  IsLeaderboard =>
    \A u \in Registered \ Listed :
      \A i \in 1..Len(resp.leaderboard) :
        ScoreOf(u, resp.category, resp.timeRange) <= resp.leaderboard[i].score

\* an engagement leaderboard cut to one entry, with an active user left out
C3_Witness ==
  /\ IsLeaderboard
  /\ resp.category = "engagement" /\ resp.limit = 1
  /\ Len(resp.leaderboard) = 1
  /\ \E u \in Registered \ Listed :
       /\ ScoreOf(u, "engagement", resp.timeRange) > 0
       /\ ScoreOf(u, "engagement", resp.timeRange) < resp.leaderboard[1].score

\* C4: for timeRange week, month or all, and a limit that every path accepts,
\* a request with an unrecognized category returns the ranking of the same
\* request with category=plants.
C4_UnknownCategoryAsPlants ==
  (/\ IsLeaderboard
   /\ resp.category = "other"
   /\ resp.timeRange \in {"week", "month", "all"}
   /\ resp.limit > 0) =>
    SameRanking(resp.leaderboard,
                Leaderboard("plants", resp.timeRange, resp.limit))

\* C5: every score of a returned leaderboard is at least 0.
C5_ScoresNonNegative ==
  IsLeaderboard =>
    \A i \in 1..Len(resp.leaderboard) : resp.leaderboard[i].score >= 0

\* C6: when a store query of getLeaderboard or getLeaderboardStats fails, the
\* error is handed to next and the caller gets the internal-error response.
C6_ErrorsForwarded ==
  (resp.op \in {"getLeaderboard", "getLeaderboardStats"} /\ resp.failed) =>
    (resp.nextCalled /\ resp.status = 500)

\* C7: a request with an unrecognized timeRange returns the ranking of the
\* same request with timeRange=all.
C7_UnknownTimeRangeAsAll ==
  (IsLeaderboard /\ resp.timeRange = "other") =>
    SameRanking(resp.leaderboard,
                Leaderboard(resp.category, "all", resp.limit))

\* C8: with category=engagement every score is the user's posts in the window
\* plus the likes on those posts plus the user's comments in the window.
C8_EngagementScore ==
  (IsLeaderboard /\ resp.category = "engagement") =>
    \A i \in 1..Len(resp.leaderboard) :
      resp.leaderboard[i].score =
        EngagementOf(resp.leaderboard[i].id, resp.timeRange)

\* a listed user with a post, a like received and a comment made in the week
C8_Witness ==
  /\ IsLeaderboard
  /\ resp.category = "engagement" /\ resp.timeRange = "week"
  /\ \E i \in 1..Len(resp.leaderboard) :
       LET u == resp.leaderboard[i].id
       IN /\ resp.leaderboard[i].score >= 3
          /\ \E j \in 1..Len(posts) :
               posts[j].user = u /\ posts[j].age = 0 /\ Len(posts[j].likes) > 0
          /\ \E j \in 1..Len(comments) :
               comments[j].user = u /\ comments[j].age = 0

C10_ImpactIsTwentyTimesPlants ==
  /\ (resp.op = "getUserProfile" /\ resp.status = 200) =>
       resp.stats.environmentalImpact = 20 * resp.stats.plants
  /\ IsStats =>
       resp.platformStats.environmentalImpact = 20 * resp.platformStats.totalPlants

\* platform statistics of the week that count a plant while the lifetime
\* counters add up to another number
C10_Witness ==
  /\ IsStats
  /\ resp.platformStats.timeRange = "week"
  /\ resp.platformStats.totalPlants > 0
  /\ resp.platformStats.totalPlants #
       SumSeq([i \in 1..Len(users) |-> numberOfPlants[users[i]]])

\* a document of age class age was created inside the window timeRange
CreatedInside(timeRange, age) ==
  \/ timeRange = "all"
  \/ timeRange = "week" /\ age = 0
  \/ timeRange = "month" /\ age <= 1

NoActivityInside(timeRange) ==
  /\ \A i \in 1..Len(posts) : ~CreatedInside(timeRange, posts[i].age)
  /\ \A i \in 1..Len(comments) : ~CreatedInside(timeRange, comments[i].age)

\* C11: when no post and no comment was created inside the requested window,
\* a successful getLeaderboard response has an empty leaderboard and
\* totalUsers 0, whatever the category and whoever is registered.
C11_EmptyWindowEmptyLeaderboard ==
  (/\ IsLeaderboard
   /\ resp.timeRange \in {"week", "month", "all"}
   /\ NoActivityInside(resp.timeRange)) =>
    (resp.leaderboard = <<>> /\ resp.totalUsers = 0)

IsRankingRead == resp.op \in {"getLeaderboard", "getLeaderboardStats"}

\* C12: when a getLeaderboard or getLeaderboardStats request has been
\* answered or has failed, every user, post and comment document is as it was
\* when the request arrived.
C12_ReadsLeaveDocuments == IsRankingRead => documents = req.docs

C12_Witness ==
  /\ resp.op = "getLeaderboardStats"
  /\ \E u \in Registered : numberOfPlants[u] # Len(PlantPostsOf(u, "all"))
  /\ \E i \in 1..Len(posts) : posts[i].likes # <<>>
  /\ comments # <<>>

\* C13: a getLeaderboard request with the category, timeRange and limit of an
\* earlier one, the documents unchanged in between, returns the same
\* leaderboard: same users, same order, same scores, same ranks.
C13_SameAnswerOnSameDocuments ==
  (/\ resp.op = "getLeaderboard" /\ ~resp.failed
   /\ prevAnswer.op = "getLeaderboard"
   /\ prevAnswer.category = resp.category
   /\ prevAnswer.timeRange = resp.timeRange
   /\ prevAnswer.limit = resp.limit) =>
    resp.leaderboard = prevAnswer.leaderboard

\* C14: the totals of a statistics response count the posts, comments, likes
\* and plant posts created inside the requested window, and totalUsers counts
\* every registered user.
C14_TotalsScopedToWindow ==
  (IsStats /\ resp.platformStats.timeRange \in {"week", "month", "all"}) =>
    LET t == resp.platformStats.timeRange
        inside == {i \in 1..Len(posts) : CreatedInside(t, posts[i].age)}
    IN /\ resp.platformStats.totalUsers = Cardinality(Registered)
       /\ resp.platformStats.totalPosts = Cardinality(inside)
       /\ resp.platformStats.totalComments =
            Cardinality({i \in 1..Len(comments) :
                           CreatedInside(t, comments[i].age)})
       /\ resp.platformStats.totalLikes =
            SumSeq([i \in 1..Len(posts) |->
                      IF i \in inside THEN Len(posts[i].likes) ELSE 0])
       /\ resp.platformStats.totalPlants =
            Cardinality({i \in inside : posts[i].plantType # "Unknown"})

C14_Witness ==
  /\ IsStats
  /\ resp.platformStats.timeRange = "week"
  /\ resp.platformStats.totalPosts = 1
  /\ Len(posts) = 2
  /\ resp.platformStats.totalUsers = 2
  /\ \E i \in 1..Len(posts) : posts[i].age = 2 /\ posts[i].likes # <<>>

\* ---- comment threads: addComment and deleteComment on existing posts ----

\* req.body.parentComment passes commentValidation when it is absent (0) or
\* any well-formed id, whether or not a comment has it
ParentInputs == 0..MaxThreadComments

NextThreads ==
  \/ \E u \in UserIds : Register(u) /\ Arrives
  \/ \E u \in UserIds :
       /\ nextPostId <= MaxPosts
       /\ CreatePost(u, "Rose", "ok")
       /\ Arrives
  \/ \E u \in UserIds, p \in PostIds, c \in ParentInputs :
       /\ IF PostExists(p) THEN nextCommentId <= MaxThreadComments ELSE TRUE
       /\ AddComment(u, p, c)
       /\ Arrives
  \/ \E u \in UserIds, c \in 1..MaxThreadComments :
       DeleteComment(u, c) /\ Arrives
  \/ EndRequest /\ Leaves

InitThreads == Init /\ storeOrder = [i \in UserIds |-> i]

SpecThreads == InitThreads /\ [][NextThreads]_vars

\* ---- toggleLike requests whose steps overlap ----

\* the requests that can be between their read and their save at one time
Slots == 1..MaxOverlap

FreeSlots == Slots \ {r.slot : r \in inflight}

\* toggleLike up to Post.findById: a missing post is answered 404 at once;
\* otherwise the request holds its own copy of the document, with the __v it
\* read
ToggleLikeRead(slot, u, p) ==
  /\ u \in Registered
  /\ slot \in FreeSlots
  /\ IF ~PostExists(p)
       THEN /\ resp = NoResp
            /\ resp' = [op |-> "toggleLike", status |-> 404]
            /\ UNCHANGED inflight
       ELSE /\ inflight' = inflight \cup
                 {[slot |-> slot, user |-> u, post |-> p,
                   likes |-> PostById(p).likes, v |-> postVersion[p]]}
            /\ UNCHANGED resp
  /\ UNCHANGED <<store, req, prevAnswer, postVersion>>

\* toggleLike from post.likes.includes to res.json. post.likes.push(id) is
\* saved as $push of the id with $inc of __v and no condition on __v;
\* post.likes = filtered is saved as $set of the whole array, with $inc of
\* __v, on the condition that __v is still the one read: if it is not, save
\* throws VersionError and the catch block forwards it (500).
ToggleLikeSave(r) ==
  LET u == r.user
      p == r.post
      alreadyLiked == Includes(r.likes, u)
      SetLikes(likes) == [i \in 1..Len(posts) |->
                            IF posts[i].id = p
                              THEN [posts[i] EXCEPT !.likes = likes]
                              ELSE posts[i]]
  IN /\ r \in inflight
     /\ resp = NoResp
     /\ inflight' = inflight \ {r}
     /\ IF ~PostExists(p)
          THEN /\ resp' = [op |-> "toggleLike", status |-> 500]
               /\ UNCHANGED <<posts, postVersion>>
        ELSE IF alreadyLiked
          THEN IF postVersion[p] # r.v
                 THEN /\ resp' = [op |-> "toggleLike", status |-> 500]
                      /\ UNCHANGED <<posts, postVersion>>
                 ELSE /\ posts' = SetLikes(FilterOut(r.likes, u))
                      /\ postVersion' = [postVersion EXCEPT ![p] = @ + 1]
                      /\ resp' = [op |-> "toggleLike", status |-> 200,
                                  likesCount |-> Len(FilterOut(r.likes, u)),
                                  isLiked |-> FALSE]
        ELSE /\ posts' = SetLikes(Append(PostById(p).likes, u))
             /\ postVersion' = [postVersion EXCEPT ![p] = @ + 1]
             /\ resp' = [op |-> "toggleLike", status |-> 200,
                         likesCount |-> Len(r.likes) + 1, isLiked |-> TRUE]
     /\ UNCHANGED <<users, numberOfPlants, comments, nextPostId,
                    nextCommentId, storeOrder, savedPosts, bio, req,
                    prevAnswer>>

NextLike ==
  \/ \E u \in UserIds : Register(u) /\ Arrives
  \/ \E u \in UserIds :
       /\ nextPostId <= ApiMaxPosts
       /\ CreatePost(u, "Rose", "ok")
       /\ Arrives
  \/ \E slot \in Slots, u \in UserIds, p \in PostIds :
       /\ postVersion[p] + Cardinality(inflight) < MaxVersion
       /\ ToggleLikeRead(slot, u, p)
  \/ \E r \in inflight : ToggleLikeSave(r)
  \/ EndRequest /\ Leaves

InitLike == Init /\ storeOrder = [i \in UserIds |-> i]

SpecLike == InitLike /\ [][NextLike]_vars

\* ---- the writes to posts and counters, one request at a time ----

\* tokens protect accepts once their user has registered
ValidCredentials == {c \in Credentials : c.kind = "valid"}

\* what can go wrong in createPost, before and after the post is saved
WriteCreateInputs == CreateInputs \cup {"saveFails", "incFails"}

\* the request in progress is over; a toggleLike that was answered 200 is
\* what the next request follows
RemembersLike ==
  /\ req' = NoReq
  /\ prevAnswer' =
       IF resp.op = "toggleLike" /\ resp.status = 200
         THEN [op |-> "toggleLike", user |-> req.cred.id,
               target |-> req.target,
               likes |-> Range(req.docs[3][CHOOSE i \in 1..Len(req.docs[3]) :
                                 req.docs[3][i].id = req.target].likes)]
         ELSE NoAnswer
  /\ UNCHANGED <<postVersion, inflight>>

NextWrites ==
  \/ \E u \in UserIds : RouteRegister(u)
  \/ \E c \in ValidCredentials, t \in PlantTypeInputs,
        i \in WriteCreateInputs :
       /\ IF i \in {"ok", "incFails"} THEN nextPostId <= ApiMaxPosts ELSE TRUE
       /\ RouteCreatePost(c, t, i)
  \/ \E c \in ValidCredentials, p \in PostIds, t \in UpdateTypeInputs :
       RouteUpdatePost(c, p, t)
  \/ \E c \in ValidCredentials, p \in PostIds : RouteDeletePost(c, p)
  \/ \E c \in ValidCredentials, p \in PostIds : RouteToggleLike(c, p)
  \/ \E c \in ValidCredentials, p \in PostIds : RouteToggleSave(c, p)
  \/ EndRequest /\ RemembersLike

InitWrites == Init /\ storeOrder = [i \in UserIds |-> i]

SpecWrites == InitWrites /\ [][NextWrites]_vars

\* ---- createPost, updatePost and deletePost with every failure ----

NextCounts ==
  \/ \E u \in UserIds : RouteRegister(u)
  \/ \E c \in ValidCredentials, t \in PlantTypeInputs,
        i \in WriteCreateInputs :
       /\ IF i \in {"ok", "incFails"} THEN nextPostId <= MaxPosts ELSE TRUE
       /\ RouteCreatePost(c, t, i)
  \/ \E c \in ValidCredentials, p \in PostIds, t \in UpdateTypeInputs :
       RouteUpdatePost(c, p, t)
  \/ \E c \in ValidCredentials, p \in PostIds : RouteDeletePost(c, p)
  \/ EndRequest /\ Leaves

SpecCounts == InitWrites /\ [][NextCounts]_vars

\* ---- deletePost requests whose steps overlap ----

\* deletePost up to its checks: a missing post is answered 404 and another
\* user's post 401 at once; otherwise the request holds the document it
\* read. A post that is not a plant skips the decrement.
DeletePostRead(slot, u, p) ==
  /\ u \in Registered
  /\ slot \in FreeSlots
  /\ IF ~PostExists(p)
       THEN /\ resp = NoResp
            /\ resp' = [op |-> "deletePost", status |-> 404]
            /\ UNCHANGED inflight
     ELSE IF PostById(p).user # u
       THEN /\ resp = NoResp
            /\ resp' = [op |-> "deletePost", status |-> 401]
            /\ UNCHANGED inflight
     ELSE /\ inflight' = inflight \cup
               {[slot |-> slot, user |-> u, post |-> p,
                 step |-> IF PostById(p).plantType # "Unknown"
                            THEN "read" ELSE "counted"]}
          /\ UNCHANGED resp
  /\ UNCHANGED <<store, req, prevAnswer, postVersion>>

\* User.findByIdAndUpdate(req.user._id, {$inc: {numberOfPlants: -1}})
DeletePostDecrement(r) ==
  /\ r \in inflight
  /\ r.step = "read"
  /\ numberOfPlants' = [numberOfPlants EXCEPT ![r.user] = @ - 1]
  /\ inflight' = (inflight \ {r}) \cup {[r EXCEPT !.step = "counted"]}
  /\ UNCHANGED <<users, posts, comments, nextPostId, nextCommentId,
                 storeOrder, savedPosts, bio, resp, req, prevAnswer,
                 postVersion>>

\* Post.deleteOne({_id: post._id}) and res.json: deleting a document that is
\* already gone is not an error
DeletePostRemove(r) ==
  /\ r \in inflight
  /\ r.step = "counted"
  /\ resp = NoResp
  /\ posts' = SelectSeq(posts, LAMBDA q : q.id # r.post)
  /\ inflight' = inflight \ {r}
  /\ resp' = [op |-> "deletePost", status |-> 200]
  /\ UNCHANGED <<users, numberOfPlants, comments, nextPostId, nextCommentId,
                 storeOrder, savedPosts, bio, req, prevAnswer, postVersion>>

NextDelete ==
  \/ \E u \in UserIds : Register(u) /\ Arrives
  \/ \E u \in UserIds, t \in {"Unknown", "Rose"} :
       /\ nextPostId <= MaxPosts
       /\ CreatePost(u, t, "ok")
       /\ Arrives
  \/ \E slot \in Slots, u \in UserIds, p \in PostIds :
       DeletePostRead(slot, u, p)
  \/ \E r \in inflight : DeletePostDecrement(r)
  \/ \E r \in inflight : DeletePostRemove(r)
  \/ EndRequest /\ Leaves

SpecDelete == InitWrites /\ [][NextDelete]_vars

\* ---- properties of the protected routes ----

\* the documents as the request in progress found them
UsersBefore == req.docs[1]
PlantsBefore == req.docs[2]
PostsBefore == req.docs[3]

\* the request in progress carries a token that verifies under the access
\* secret and names an existing user
Authentic ==
  req.cred.kind = "valid" /\ \E i \in 1..Len(UsersBefore) :
                               UsersBefore[i] = req.cred.id

ProtectedOps ==
  {"createPost", "updatePost", "deletePost", "toggleLike", "toggleSave",
   "addComment", "deleteComment", "toggleCommentLike", "getUserSavedPosts"}

\* C15: after a request other than createPost and deletePost (updatePost,
\* toggleLike, toggleSave, addComment, deleteComment, toggleCommentLike,
\* updateProfile, getUserSavedPosts, register) every user's numberOfPlants
\* is what it was when the request arrived.
C15_OnlyCreateAndDeleteCount ==
  (req.op \notin {"none", "createPost", "deletePost"}) =>
    numberOfPlants = PlantsBefore

C15_Witness ==
  /\ req.op = "updatePost"
  /\ resp.status = 200
  /\ \E i \in 1..Len(posts) :
       /\ posts[i].plantType = "Rose"
       /\ PostsBefore[i].plantType = "Unknown"
       /\ numberOfPlants[posts[i].user] = 0

\* C18: a request to a protected route that carries no Bearer token, a token
\* that does not verify, or a token naming no existing user is answered 401
\* and leaves every document as it was: the handler runs only for the others.
C18_ProtectedRoutesNeedToken ==
  (req.op \in ProtectedOps /\ ~Authentic) =>
    (resp.status = 401 /\ documents = req.docs)

C18_Witness ==
  /\ req.op = "deletePost"
  /\ req.cred.kind = "invalid"
  /\ PostExists(req.target)
  /\ PostById(req.target).user = req.cred.id
  /\ resp.status = 401

\* C19: an authenticated deletePost request for an unknown post id is answered
\* 404, one for a post of another user 401, and both leave the posts and
\* every numberOfPlants as they were; only the owner's request removes the
\* post.
C19_OnlyOwnerDeletes ==
  (req.op = "deletePost" /\ Authentic) =>
    LET known == \E i \in 1..Len(PostsBefore) :
                   PostsBefore[i].id = req.target
        owned == \E i \in 1..Len(PostsBefore) :
                   /\ PostsBefore[i].id = req.target
                   /\ PostsBefore[i].user = req.cred.id
    IN /\ ~known => resp.status = 404
       /\ (known /\ ~owned) => resp.status = 401
       /\ ~owned => (posts = PostsBefore /\ numberOfPlants = PlantsBefore)
       /\ owned => (resp.status = 200 /\ ~PostExists(req.target))

C19_Witness ==
  /\ req.op = "deletePost"
  /\ Authentic
  /\ PostExists(req.target)
  /\ PostById(req.target).user # req.cred.id
  /\ PostById(req.target).plantType # "Unknown"
  /\ resp.status = 401

\* C20: getUserSavedPosts answers an authenticated requester whose id is not
\* the :id of the path with 401 and no saved posts; a response that carries
\* saved posts carries those of the requester.
C20_SavedPostsOnlyForOwner ==
  (req.op = "getUserSavedPosts" /\ Authentic) =>
    /\ req.cred.id # req.target =>
         (resp.status = 401 /\ "posts" \notin DOMAIN resp)
    /\ "posts" \in DOMAIN resp =>
         (req.cred.id = req.target /\ resp.of = req.cred.id)

C20_Witness ==
  /\ req.op = "getUserSavedPosts"
  /\ Authentic
  /\ req.cred.id # req.target
  /\ savedPosts[req.target] # <<>>
  /\ PostExists(savedPosts[req.target][1])
  /\ resp.status = 401

\* C16: every comment whose parentComment is non-null points to an existing
\* comment on the same post whose own parentComment is null (replies are one
\* level deep).
C16_RepliesOneLevelDeep ==
  \A i \in 1..Len(comments) :
    comments[i].parentComment # 0 =>
      \E j \in 1..Len(comments) :
        /\ comments[j].id = comments[i].parentComment
        /\ comments[j].post = comments[i].post
        /\ comments[j].parentComment = 0

\* C17: a post's likes holds each user at most once, however the reads and
\* the saves of toggleLike requests interleave.
C17_LikesHoldEachUserOnce ==
  \A i \in 1..Len(posts) :
    \A a, b \in 1..Len(posts[i].likes) :
      posts[i].likes[a] = posts[i].likes[b] => a = b

\* ---- properties of the writes ----

\* the users in the likes of post p, in the posts ps
LikedBy(ps, p) ==
  Range(ps[CHOOSE i \in 1..Len(ps) : ps[i].id = p].likes)

KnownBefore == \E i \in 1..Len(PostsBefore) : PostsBefore[i].id = req.target

\* C21: toggleLike by u on an existing post flips u's membership in its
\* likes, leaves every other user's membership as it was, and answers with
\* isLiked equal to u's membership after the call; when the request before
\* it was a toggleLike by u on the same post, the likes are back to the set
\* they were before that one.
C21_ToggleLikeFlipsOneMembership ==
  (req.op = "toggleLike" /\ Authentic /\ KnownBefore) =>
    LET u == req.cred.id
        before == LikedBy(PostsBefore, req.target)
        after == LikedBy(posts, req.target)
    IN /\ resp.status = 200
       /\ (u \in after) <=> (u \notin before)
       /\ after \ {u} = before \ {u}
       /\ resp.isLiked = (u \in after)
       /\ (/\ prevAnswer.op = "toggleLike"
           /\ prevAnswer.user = u
           /\ prevAnswer.target = req.target)
            => after = prevAnswer.likes

C21_Witness ==
  /\ req.op = "toggleLike"
  /\ resp.status = 200
  /\ prevAnswer.op = "toggleLike"
  /\ prevAnswer.user = req.cred.id
  /\ prevAnswer.target = req.target
  /\ req.cred.id \in LikedBy(posts, req.target)
  /\ \E v \in UserIds \ {req.cred.id} : v \in LikedBy(posts, req.target)

\* the posts of user u that show a plant
PlantPostsNow(u) ==
  {i \in 1..Len(posts) : posts[i].user = u /\ posts[i].plantType # "Unknown"}

\* C22: a createPost answered 201 has added exactly one post, owned by the
\* requester, with the plantType of the body or "Unknown" when the body has
\* none; the requester's numberOfPlants is 1 higher when a plantType other
\* than "Unknown" was given and unchanged otherwise, and no other user's
\* numberOfPlants has changed.
C22_CreatePostAddsOneAndCounts ==
  (req.op = "createPost" /\ resp.status = 201) =>
    LET u == req.cred.id
        counts == req.plantType # "" /\ req.plantType # "Unknown"
    IN /\ posts = Append(PostsBefore, posts[Len(posts)])
       /\ \A i \in 1..Len(PostsBefore) :
            PostsBefore[i].id # posts[Len(posts)].id
       /\ posts[Len(posts)].user = u
       /\ posts[Len(posts)].plantType =
            (IF req.plantType = "" THEN "Unknown" ELSE req.plantType)
       /\ numberOfPlants =
            [PlantsBefore EXCEPT ![u] = @ + (IF counts THEN 1 ELSE 0)]

C22_Witness ==
  /\ req.op = "createPost"
  /\ resp.status = 201
  /\ req.plantType = "Unknown"
  /\ Len(posts) = 2
  /\ \E v \in UserIds \ {req.cred.id} : numberOfPlants[v] = 1
  /\ numberOfPlants[req.cred.id] = 0

\* C23: with no request in progress, each user's numberOfPlants is the
\* number of existing posts of that user whose plantType is not "Unknown".
C23_CounterEqualsPlantPosts ==
  resp = NoResp =>
    \A u \in Registered : numberOfPlants[u] = Cardinality(PlantPostsNow(u))

\* C25: a createPost answered with an error status (400, 500) has persisted
\* no post and changed no numberOfPlants.
C25_FailedCreatePostWritesNothing ==
  (req.op = "createPost" /\ resp.status \in {400, 500}) =>
    (posts = PostsBefore /\ numberOfPlants = PlantsBefore)

\* C26: with no request in progress, post id p is in u.savedPosts exactly
\* when post p exists and u is in its savedBy.
C26_SavedBookkeepingConsistent ==
  resp = NoResp =>
    \A u \in UserIds, p \in PostIds :
      Includes(savedPosts[u], p) <=>
        (PostExists(p) /\ Includes(PostById(p).savedBy, u))

\* C24: however the steps of deletePost requests of a post's owner overlap,
\* numberOfPlants is decremented once for a deleted plant post: once no
\* request is in progress, the owner's counter is the number of plant posts
\* the owner still has.
C24_DecrementedOncePerPost ==
  (inflight = {} /\ resp = NoResp) =>
    \A u \in Registered : numberOfPlants[u] = Cardinality(PlantPostsNow(u))

====
